---- MODULE Spec2Model ----
(***************************************************************************)
(* CrateIndex.unpack of lib/bb/fetch2/crateindex.py as a state machine.    *)
(*                                                                         *)
(* Text is a sequence of characters, a character is a one-character        *)
(* string (the code point U+00E9 is written EACUTE); bytes are strings     *)
(* too: a printable ASCII byte is its character, any other byte is its     *)
(* hexadecimal name ("0x00", "0x01", "0xC3", "0xA9").                      *)
(***************************************************************************)
EXTENDS Integers, Sequences, FiniteSets, TLC

\* ------------------------------------------------------------------ bounds
\* unpack calls made on the one destination directory
MaxRuns == 2
\* lines of the index file whose content is drawn freely (TranscodeSpec)
MaxLines == 2

\* -------------------------------------------------------------- characters
QUOTE == "\""
SP == " "
LF == "\n"
EACUTE == "U+00E9"
NUL == "0x00"
SOH == "0x01"
Digits == {"0", "1", "2", "3", "4", "5", "6", "7", "8", "9"}
Str(s) == <<QUOTE>> \o s \o <<QUOTE>>
VERS == <<"v", "e", "r", "s">>

\* str.encode('utf-8') of one character, of a text
Utf8(c) == IF c = EACUTE THEN <<"0xC3", "0xA9">> ELSE <<c>>
RECURSIVE encode(_)
encode(s) == IF s = <<>> THEN <<>> ELSE Utf8(Head(s)) \o encode(Tail(s))

\* a loop that takes the line as it is
StripSpaces_kept(line) == line

\* line.replace(' ', '')
StripSpaces(line) == SelectSeq(line, LAMBDA c : c # SP)

\* index of the first x in s, 0 when there is none
IndexOf(s, x) ==
    IF \E i \in 1..Len(s) : s[i] = x
    THEN CHOOSE i \in 1..Len(s) : s[i] = x /\ \A j \in 1..(i - 1) : s[j] # x
    ELSE 0

From(s, i) == SubSeq(s, i, Len(s))

\* str.splitlines() (the only line boundary of the modelled texts is LF)
RECURSIVE splitlines(_)
splitlines(s) ==
    IF s = <<>> THEN <<>>
    ELSE LET i == IndexOf(s, LF) IN
         IF i = 0 THEN <<s>>
         ELSE <<SubSeq(s, 1, i - 1)>> \o splitlines(From(s, i + 1))

\* ------------------------------------------------------------- json.loads
\* A parse is [ok, val, rest]; a value is [t, v] with t one of
\* "str" (v: text), "num", "lit" (null, true, false, NaN, Infinity),
\* "arr" (v: values), "obj" (v: <<key, value>> pairs in source order).
NoParse == [ok |-> FALSE, val |-> [t |-> "none", v |-> <<>>], rest |-> <<>>]
Parsed(t, v, rest) == [ok |-> TRUE, val |-> [t |-> t, v |-> v], rest |-> rest]

StartsWith(s, p) == Len(s) >= Len(p) /\ SubSeq(s, 1, Len(p)) = p

\* json.decoder.scanstring, s being the text after the opening quote
scanstring(s) ==
    LET i == IndexOf(s, QUOTE) IN
    IF i = 0 THEN NoParse ELSE Parsed("str", SubSeq(s, 1, i - 1), From(s, i + 1))

\* length of the longest prefix of s made of digits
RECURSIVE DigitRun(_)
DigitRun(s) == IF s # <<>> /\ Head(s) \in Digits THEN 1 + DigitRun(Tail(s)) ELSE 0

\* json.scanner NUMBER_RE: (-?(?:0|[1-9]\d*))(\.\d+)?([eE][-+]?\d+)?
\* the length of the match of each part at the start of s, 0 when there is none
IntLen(s) == IF s = <<>> THEN 0 ELSE IF Head(s) = "0" THEN 1 ELSE DigitRun(s)
FracLen(s) ==
    IF s # <<>> /\ Head(s) = "." /\ DigitRun(Tail(s)) > 0 THEN 1 + DigitRun(Tail(s)) ELSE 0
ExpLen(s) ==
    IF s = <<>> \/ Head(s) \notin {"e", "E"} THEN 0
    ELSE LET sign == IF Len(s) >= 2 /\ s[2] \in {"-", "+"} THEN 1 ELSE 0 IN
         IF DigitRun(From(s, 2 + sign)) > 0 THEN 1 + sign + DigitRun(From(s, 2 + sign)) ELSE 0
UnsignedLen(s) ==
    LET int == IntLen(s) IN
    IF int = 0 THEN 0
    ELSE LET frac == FracLen(From(s, int + 1)) IN int + frac + ExpLen(From(s, int + frac + 1))
NumberLen(s) ==
    IF s # <<>> /\ Head(s) = "-"
    THEN (IF UnsignedLen(Tail(s)) = 0 THEN 0 ELSE 1 + UnsignedLen(Tail(s)))
    ELSE UnsignedLen(s)

Literals == {<<"n", "u", "l", "l">>, <<"t", "r", "u", "e">>, <<"f", "a", "l", "s", "e">>,
             <<"N", "a", "N">>, <<"I", "n", "f", "i", "n", "i", "t", "y">>,
             <<"-", "I", "n", "f", "i", "n", "i", "t", "y">>}

\* the literals and the numbers of _scan_once
ScanAtom(s) ==
    IF \E l \in Literals : StartsWith(s, l) THEN
        LET l == CHOOSE l \in Literals : StartsWith(s, l) IN
        Parsed("lit", l, From(s, Len(l) + 1))
    ELSE LET n == NumberLen(s) IN
         IF n > 0 THEN Parsed("num", SubSeq(s, 1, n), From(s, n + 1)) ELSE NoParse

RECURSIVE scan_once(_), JSONObject(_, _), JSONArray(_, _)
\* json.scanner.py_make_scanner._scan_once
scan_once(s) ==
    IF s = <<>> THEN NoParse
    ELSE IF Head(s) = QUOTE THEN scanstring(Tail(s))
    ELSE IF Head(s) = "{" THEN
        IF Len(s) >= 2 /\ s[2] = "}" THEN Parsed("obj", <<>>, From(s, 3))
        ELSE IF Len(s) >= 2 /\ s[2] = QUOTE THEN JSONObject(Tail(s), <<>>)
        ELSE NoParse
    ELSE IF Head(s) = "[" THEN
        IF Len(s) >= 2 /\ s[2] = "]" THEN Parsed("arr", <<>>, From(s, 3))
        ELSE JSONArray(Tail(s), <<>>)
    ELSE ScanAtom(s)

\* json.decoder.JSONObject, s starting at the opening quote of a key
JSONObject(s, pairs) ==
    LET k == scanstring(Tail(s)) IN
    IF ~k.ok THEN NoParse
    ELSE IF k.rest = <<>> \/ Head(k.rest) # ":" THEN NoParse
    ELSE LET v == scan_once(Tail(k.rest)) IN
         IF ~v.ok \/ v.rest = <<>> THEN NoParse
         ELSE LET more == Append(pairs, <<k.val.v, v.val>>) IN
              IF Head(v.rest) = "}" THEN Parsed("obj", more, Tail(v.rest))
              ELSE IF Head(v.rest) # "," THEN NoParse
              ELSE IF Len(v.rest) >= 2 /\ v.rest[2] = QUOTE
                   THEN JSONObject(Tail(v.rest), more)
                   ELSE NoParse

\* json.decoder.JSONArray, s starting at an element
JSONArray(s, items) ==
    LET v == scan_once(s) IN
    IF ~v.ok \/ v.rest = <<>> THEN NoParse
    ELSE LET more == Append(items, v.val) IN
         IF Head(v.rest) = "]" THEN Parsed("arr", more, Tail(v.rest))
         ELSE IF Head(v.rest) # "," THEN NoParse
         ELSE JSONArray(Tail(v.rest), more)

\* json.loads: a value and nothing after it, else JSONDecodeError (ok = FALSE).
\* It is applied to lines without spaces, and the texts hold no tab and no
\* backslash, so no white space is skipped and no escape is decoded.
json_loads(s) ==
    LET p == scan_once(s) IN IF p.ok /\ p.rest = <<>> THEN p ELSE NoParse


\* ------------------------------------------------- one record (131 - 145)
IsSubstring(p, s) == \E i \in 0..(Len(s) - Len(p)) : SubSeq(s, i + 1, i + Len(p)) = p

\* 'vers' in jdict, for the values that support the test
HasVers(val) ==
    CASE val.t = "obj" -> \E i \in 1..Len(val.v) : val.v[i][1] = VERS
      [] val.t = "str" -> IsSubstring(VERS, val.v)
      [] val.t = "arr" -> \E i \in 1..Len(val.v) : val.v[i].t = "str" /\ val.v[i].v = VERS
      [] OTHER -> FALSE

\* jdict['vers'] of a dict: the value of the last pair with that key
GetVers(val) ==
    LET i == CHOOSE i \in 1..Len(val.v) :
                 /\ val.v[i][1] = VERS
                 /\ \A j \in (i + 1)..Len(val.v) : val.v[j][1] # VERS
    IN val.v[i][2]

Outcome(kind, bytes) == [kind |-> kind, bytes |-> bytes]

\* what the body of the loop over the lines does with one line: the bytes it
\* writes and how it ends ("TypeError" and "AttributeError" leave the loop)
Record(vers, line) == encode(vers) \o <<NUL>> \o encode(line) \o <<NUL>>

TranscodeLine(raw) ==
    LET line == StripSpaces(raw)
        j == json_loads(line)
    IN IF line = <<>> THEN Outcome("blank", <<>>)
       ELSE IF ~j.ok THEN Outcome("invalid", <<>>)
       ELSE IF j.val.t \in {"num", "lit"} THEN Outcome("TypeError", <<>>)
       ELSE IF ~HasVers(j.val) THEN Outcome("novers", <<>>)
       ELSE IF j.val.t # "obj" THEN Outcome("TypeError", <<>>)
       ELSE IF GetVers(j.val).t # "str" THEN Outcome("AttributeError", <<>>)
       ELSE Outcome("record", Record(GetVers(j.val).v, line))

\* a header without the byte that ends the revision
Header_unterminated(commit) == <<SOH>> \o encode(commit)

\* the three writes that open a cache file (128 - 130)
Header(commit) == <<SOH>> \o encode(commit) \o <<NUL>>


\* ------------------------------------------------------------ file systems
\* A path is a sequence of names, relative to the directory it is in; a
\* directory tree is its set of directories (<<>> is the tree's root, which
\* a tree that does not exist lacks) and its files with their contents.
NoFiles == [p \in {} |-> <<>>]
Absent == [dirs |-> {}, files |-> NoFiles]
Exists(t) == <<>> \in t.dirs

Prefixes(p) == {SubSeq(p, 1, n) : n \in 0..Len(p)}
Parent(p) == SubSeq(p, 1, Len(p) - 1)
Name(p) == p[Len(p)]
WriteFile(fs, p, bytes) == [q \in DOMAIN fs \cup {p} |-> IF q = p THEN bytes ELSE fs[q]]

CACHE == <<".cache">>
\* the marker touched inside destcachedir
LAST_UPDATED_in_cache == <<".cache", ".last-updated">>
LAST_UPDATED == <<".last-updated">>
CONFIG_JSON == "config.json"
GIT_DIR == <<".git">>
FETCH_HEAD == <<".git", "FETCH_HEAD">>

\* destcachedir = os.path.join(destdir, '.cache') (59); path_write and
\* filename_write relative to destdir (118, 124)
destcachedir(p) == CACHE \o p

\* a prunedir that removes nothing
prunedir_skipped(d) == d

\* a prunedir that spares the files directly inside the directory
prunedir_shallow(d) ==
    [dirs |-> {<<>>}, files |-> [p \in {q \in DOMAIN d.files : Len(q) = 1} |-> d.files[p]]]

\* bb.utils.prunedir(destdir) (63)
prunedir(d) == Absent

\* bb.utils.mkdirhier(path) inside destdir: the directory and its parents
mkdirhier(d, p) == [d EXCEPT !.dirs = @ \cup Prefixes(p)]

\* a walk that does not descend into the subdirectories
WalkDirs_top(files) == {<<>>}

\* the directories os.walk(tmp_cachedir.name) yields (117): the root and
\* every directory that holds a file (a git tree has no empty directory)
WalkDirs(files) == {<<>>} \cup UNION {Prefixes(Parent(p)) : p \in DOMAIN files}
FilesIn(files, dir) == {p \in DOMAIN files : Parent(p) = dir}

\* ------------------------------------------------------------------ inputs
Revisions == {<<"a", "1">>, <<"b", "2">>}

Text(lines) ==
    LET RECURSIVE Join(_)
        Join(ls) == IF ls = <<>> THEN <<>> ELSE Head(ls) \o <<LF>> \o Join(Tail(ls))
    IN Join(lines)

\* index lines: a record, a record with cosmetic spaces and a space inside a
\* value, a record with a non-ASCII character, text that is no JSON, an
\* object without vers, a number, an object whose vers is a number, a string
\* that contains vers, an empty array, a line of spaces
LineVers == <<"{">> \o Str(VERS) \o <<":">> \o Str(<<"1", ".", "0">>) \o <<"}">>
LineSpaced == <<"{", SP>> \o Str(VERS) \o <<":", SP>> \o Str(<<"2", SP, "b">>) \o <<SP, "}">>
LineAccent == <<"{">> \o Str(<<"d">>) \o <<":">> \o Str(<<EACUTE>>) \o <<",">>
              \o Str(VERS) \o <<":">> \o Str(<<"3">>) \o <<"}">>
LineNotJson == <<"n", "o", "t", SP, "j", "s", "o", "n">>
LineNoVers == <<"{">> \o Str(<<"n">>) \o <<":", "t", "r", "u", "e", "}">>
LineNumber == <<"5">>
LineVersNumber == <<"{">> \o Str(VERS) \o <<":", "1", "}">>
LineString == Str(VERS)
LineArray == <<"[", "]">>
LineBlank == <<SP>>

Lines == {LineVers, LineSpaced, LineAccent, LineNotJson, LineNoVers, LineNumber,
          LineVersNumber, LineString, LineArray, LineBlank}

SeqsUpTo(S, n) == UNION {[1..k -> S] : k \in 0..n}

FOO == <<"foo">>
BAR == <<"a", "bar">>
ConfigText == Text(<<<<"{">> \o Str(<<"d", "l">>) \o <<":">> \o Str(<<"u">>) \o <<"}">>>>)

Tree(foo, bar, cfg) ==
    [p \in {FOO, BAR} \cup cfg |->
        IF p = FOO THEN Text(foo) ELSE IF p = BAR THEN Text(bar) ELSE ConfigText]

\* the snapshots of the pipeline specification
SmallTrees ==
    { Tree(<<LineVers>>, <<LineAccent>>, {<<CONFIG_JSON>>}),
      [p \in {BAR, <<"a", CONFIG_JSON>>} |->
          IF p = BAR THEN Text(<<LineSpaced, LineNotJson>>) ELSE ConfigText],
      Tree(<<LineVers, LineNumber>>, <<LineAccent>>, {}) }

\* the snapshots of the transcoder's specification: foo holds any lines
RichTrees ==
    {Tree(ls, <<LineVers>>, {<<CONFIG_JSON>>, <<"a", CONFIG_JSON>>}) : ls \in SeqsUpTo(Lines, MaxLines)}


\* ------------------------------------------------------------------- state
VARIABLES
    pc,            \* where the current call of unpack stands
    runs,          \* calls of unpack made so far
    repo,          \* the index repository: the file tree of each revision
    dest,          \* destdir
    dest0,         \* destdir as it was when the current call was made
    last,          \* how the previous call ended: [pc, commit_id, cmds]
    tmp,           \* tmp_cachedir: [exists, files]
    commit_id,     \* ud.revisions[ud.names[0]] (61)
    need_lfs,      \* self._need_lfs(ud) (65)
    basecmd,       \* how many "GIT_LFS_SKIP_SMUDGE=1 " prefixes ud.basecmd has (68)
    source_found,  \* (70)
    source_error,  \* (71)
    src,           \* what the call saw of the sources: clonedir_need_update
                   \* (73), ud.shallow (86), os.path.exists(ud.fullshallow) (87)
    lfs,           \* what the guard saw: _contains_lfs (103), _find_git_lfs
    walked,        \* the directories os.walk has yielded (117)
    path_read,     \* the directory being walked, relative to tmp_cachedir
    files,         \* the files of path_read not yet visited (120)
    filename,      \* the file being written, relative to tmp_cachedir (123, 124)
    lines,         \* the lines of crate_info not yet processed (131)
    error,         \* the exception the call raised
    notes,         \* what the call passed to bb.note
    cmds           \* the commands the call handed to runfetchcmd

vars == <<pc, runs, repo, dest, dest0, last, tmp, commit_id, need_lfs, basecmd,
          source_found, source_error, src, lfs, walked, path_read, files, filename, lines, error, notes, cmds>>

call == <<runs, repo, dest0, last, commit_id>>
env == <<runs, repo, dest0, last, commit_id, src, lfs>>
acq == <<need_lfs, basecmd, source_found, source_error>>
walk == <<walked, path_read, files, filename, lines>>

NoTmp == [exists |-> FALSE, files |-> NoFiles]
NoError == [type |-> "none", msg |-> <<>>]
NoFile == <<>>
NoSrc == [mirror |-> "unasked", shallow |-> "unasked", bundle |-> "unasked"]
NoLfs == [asked |-> FALSE, contains |-> FALSE, found |-> FALSE]

Start(r, n) ==
    /\ pc = "idle"
    /\ runs = n
    /\ repo = r
    /\ dest = Absent
    /\ dest0 = Absent
    /\ last = [pc |-> "idle", commit_id |-> <<>>, cmds |-> <<>>]
    /\ src = NoSrc
    /\ lfs = NoLfs
    /\ tmp = NoTmp
    /\ commit_id = <<>>
    /\ need_lfs = FALSE
    /\ basecmd = 0
    /\ source_found = FALSE
    /\ source_error = <<>>
    /\ walked = {}
    /\ path_read = <<>>
    /\ files = {}
    /\ filename = NoFile
    /\ lines = <<>>
    /\ error = NoError
    /\ notes = {}
    /\ cmds = <<>>

Init == \E r \in [Revisions -> SmallTrees] : Start(r, 0)

\* the transcoder's specification: one call, on a snapshot whose foo is free
InitTranscode == \E t \in RichTrees : Start([c \in Revisions |-> t], MaxRuns - 1)

\* 48 - 61: a call of unpack; tempfile.TemporaryDirectory() makes the scratch
\* directory, commit_id is read from ud
Unpack ==
    /\ pc \in {"idle", "done", "failed"}
    /\ runs < MaxRuns
    /\ runs' = runs + 1
    /\ \E c \in Revisions : commit_id' = c
    /\ dest0' = dest
    /\ last' = [pc |-> pc, commit_id |-> commit_id, cmds |-> cmds]
    /\ src' = NoSrc
    /\ lfs' = NoLfs
    /\ tmp' = [exists |-> TRUE, files |-> NoFiles]
    /\ source_found' = FALSE
    /\ source_error' = <<>>
    /\ walked' = {}
    /\ path_read' = <<>>
    /\ files' = {}
    /\ filename' = NoFile
    /\ lines' = <<>>
    /\ error' = NoError
    /\ notes' = {}
    /\ cmds' = <<>>
    /\ pc' = "prune"
    /\ UNCHANGED <<repo, dest, need_lfs, basecmd>>

\* 62 - 63
Prune ==
    /\ pc = "prune"
    /\ dest' = IF Exists(dest) THEN prunedir(dest) ELSE dest
    /\ pc' = "need_lfs"
    /\ UNCHANGED <<env, tmp, acq, walk, error, notes, cmds>>

\* 65 - 68: _need_lfs reads the lfs parameter of the url
NeedLfs ==
    /\ pc = "need_lfs"
    /\ \E b \in BOOLEAN :
        /\ need_lfs' = b
        /\ basecmd' = IF b THEN basecmd ELSE basecmd + 1
    /\ pc' = "clonedir"
    /\ UNCHANGED <<env, dest, tmp, source_found, source_error, walk, error, notes, cmds>>

\* 73 - 76: the clone directory is up to date
CloneDirUpToDate ==
    /\ pc = "clonedir"
    /\ src' = [src EXCEPT !.mirror = "current"]
    /\ dest' = mkdirhier(dest, <<>>)
    /\ pc' = "init"
    /\ UNCHANGED <<call, lfs, tmp, acq, walk, error, notes, cmds>>

\* 73 - 74, 82 - 83: it is not
CloneDirNeedsUpdate ==
    /\ pc = "clonedir"
    /\ src' = [src EXCEPT !.mirror = "stale"]
    /\ source_error' = Append(source_error, "clone directory not available or not up to date")
    /\ pc' = "shallow"
    /\ UNCHANGED <<call, lfs, dest, tmp, need_lfs, basecmd, source_found, walk, error, notes, cmds>>

\* 77: git init in destdir
GitInit ==
    /\ pc = "init"
    /\ cmds' = Append(cmds, "init")
    /\ dest' = [dest EXCEPT !.dirs = @ \cup {GIT_DIR}]
    /\ pc' = "fetch"
    /\ UNCHANGED <<env, tmp, acq, walk, error, notes>>

\* 78: git fetch <clonedir> <commit_id> in destdir
GitFetch ==
    /\ pc = "fetch"
    /\ cmds' = Append(cmds, "fetch")
    /\ dest' = [dest EXCEPT !.files = WriteFile(@, FETCH_HEAD, encode(commit_id))]
    /\ pc' = "archive"
    /\ UNCHANGED <<env, tmp, acq, walk, error, notes>>

\* a mirror path that does not set source_found and falls through to line 85
GitArchive_unflagged ==
    /\ pc = "archive"
    /\ cmds' = Append(cmds, "archive")
    /\ tmp' = [tmp EXCEPT !.files = repo[commit_id]]
    /\ pc' = "shallow"
    /\ UNCHANGED <<env, dest, acq, walk, error, notes>>

\* 80 - 81: git archive <commit_id> | tar -x -C <tmp_cachedir>
GitArchive ==
    /\ pc = "archive"
    /\ cmds' = Append(cmds, "archive")
    /\ tmp' = [tmp EXCEPT !.files = repo[commit_id]]
    /\ source_found' = TRUE
    /\ pc' = "lfs"
    /\ UNCHANGED <<env, dest, need_lfs, basecmd, source_error, walk, error, notes>>

\* 85 - 87: shallow clones are enabled and the bundle is there
ShallowAvailable ==
    /\ pc = "shallow"
    /\ src' = [src EXCEPT !.shallow = "on", !.bundle = "there"]
    /\ ~source_found
    /\ pc' = "untar"
    /\ UNCHANGED <<call, lfs, dest, tmp, acq, walk, error, notes, cmds>>

\* 89 - 90: tar -xzf <fullshallow> in tmp_cachedir
ShallowExtract ==
    /\ pc = "untar"
    /\ cmds' = Append(cmds, "tar")
    /\ tmp' = [tmp EXCEPT !.files = repo[commit_id]]
    /\ source_found' = TRUE
    /\ pc' = "lfs"
    /\ UNCHANGED <<env, dest, need_lfs, basecmd, source_error, walk, error, notes>>

\* a fallback that does not say that the bundle is missing
ShallowMissing_silent ==
    /\ pc = "shallow"
    /\ src' = [src EXCEPT !.shallow = "on", !.bundle = "missing"]
    /\ ~source_found
    /\ pc' = "nosource"
    /\ UNCHANGED <<call, lfs, dest, tmp, acq, walk, error, notes, cmds>>

\* 86 - 87, 91 - 92: enabled, and no bundle
ShallowMissing ==
    /\ pc = "shallow"
    /\ src' = [src EXCEPT !.shallow = "on", !.bundle = "missing"]
    /\ ~source_found
    /\ source_error' = Append(source_error, "shallow clone not available")
    /\ pc' = "nosource"
    /\ UNCHANGED <<call, lfs, dest, tmp, need_lfs, basecmd, source_found, walk, error, notes, cmds>>

\* 86, 93 - 94: not enabled
ShallowDisabled ==
    /\ pc = "shallow"
    /\ src' = [src EXCEPT !.shallow = "off"]
    /\ ~source_found
    /\ source_error' = Append(source_error, "shallow clone not enabled")
    /\ pc' = "nosource"
    /\ UNCHANGED <<call, lfs, dest, tmp, need_lfs, basecmd, source_found, walk, error, notes, cmds>>

\* an exception leaves unpack: nothing is undone, nothing is cleaned up
Raise(type, msg) ==
    /\ error' = [type |-> type, msg |-> msg]
    /\ pc' = "failed"

\* 96 - 97
NoSource ==
    /\ pc = "nosource"
    /\ ~source_found
    /\ Raise("UnpackError", source_error)
    /\ UNCHANGED <<env, dest, tmp, acq, walk, notes, cmds>>

\* 77, 78, 80, 89, 149: runfetchcmd raises FetchError when the command fails
Command(at) ==
    CASE at = "init" -> "init" [] at = "fetch" -> "fetch" [] at = "archive" -> "archive"
      [] at = "untar" -> "tar" [] at = "touch" -> "touch"

CommandFails ==
    /\ pc \in {"init", "fetch", "archive", "untar", "touch"}
    /\ cmds' = Append(cmds, Command(pc))
    /\ Raise("FetchError", <<Command(pc)>>)
    /\ UNCHANGED <<env, dest, tmp, acq, walk, notes>>


\* a guard that wants git-lfs whether or not the url asks for LFS
LfsVerdict_strict(has, need, found) ==
    IF has
    THEN IF ~found THEN "raise"
         ELSE IF ~need THEN "note"
         ELSE "pass"
    ELSE "pass"

\* 103 - 107: what the guard does with the answer of _contains_lfs, the lfs
\* parameter and the answer of _find_git_lfs
LfsVerdict(has, need, found) ==
    IF has
    THEN IF need /\ ~found THEN "raise"
         ELSE IF ~need THEN "note"
         ELSE "pass"
    ELSE "pass"

\* 103: the answers the guard gets; whether the snapshot has LFS content and
\* whether git-lfs is installed are facts of the environment
LfsSees(verdict) ==
    \E has \in BOOLEAN, found \in BOOLEAN :
        /\ LfsVerdict(has, need_lfs, found) = verdict
        /\ lfs' = [asked |-> TRUE, contains |-> has, found |-> found]

\* 103 - 105: LFS content, LFS wanted, git-lfs not installed
LfsMissing ==
    /\ pc = "lfs"
    /\ LfsSees("raise")
    /\ Raise("FetchError", <<"lfs">>)
    /\ UNCHANGED <<call, src, dest, tmp, acq, walk, notes, cmds>>

\* 103, 106 - 107: LFS content, LFS not wanted
LfsAdvisory ==
    /\ pc = "lfs"
    /\ LfsSees("note")
    /\ notes' = notes \cup {<<"has LFS content but it is not being fetched", NoFile>>}
    /\ pc' = "walk"
    /\ UNCHANGED <<call, src, dest, tmp, acq, walk, error, cmds>>

\* 103 - 104: no LFS content, or LFS wanted and git-lfs installed
LfsPass ==
    /\ pc = "lfs"
    /\ LfsSees("pass")
    /\ pc' = "walk"
    /\ UNCHANGED <<call, src, dest, tmp, acq, walk, error, notes, cmds>>

\* 117 - 119: os.walk yields the next directory, top down, and the mirror of
\* it is made under destcachedir
WalkDir ==
    /\ pc = "walk"
    /\ \E d \in WalkDirs(tmp.files) \ walked :
        /\ d = <<>> \/ Parent(d) \in walked
        /\ walked' = walked \cup {d}
        /\ path_read' = d
        /\ files' = FilesIn(tmp.files, d)
        /\ dest' = mkdirhier(dest, destcachedir(d))
    /\ pc' = "files"
    /\ UNCHANGED <<env, tmp, acq, filename, lines, error, notes, cmds>>

\* a walk that leaves out the config.json of the top directory only
Excluded_top(f) == Len(f) = 1 /\ Name(f) = CONFIG_JSON

\* 121: the test is on the file name, in whatever directory the walk stands
Excluded(f) == Name(f) = CONFIG_JSON

\* 120 - 122
SkipConfig ==
    /\ pc = "files"
    /\ \E f \in files :
        /\ Excluded(f)
        /\ files' = files \ {f}
    /\ UNCHANGED <<pc, env, dest, tmp, acq, walked, path_read, filename, lines, error, notes, cmds>>

\* a cache file that is opened and gets no header
OpenFile_unwritten ==
    /\ pc = "files"
    /\ \E f \in files :
        /\ ~Excluded(f)
        /\ files' = files \ {f}
        /\ filename' = f
        /\ lines' = splitlines(tmp.files[f])
        /\ dest' = [dest EXCEPT !.files = WriteFile(@, destcachedir(f), <<>>)]
    /\ pc' = "lines"
    /\ UNCHANGED <<env, tmp, acq, walked, path_read, error, notes, cmds>>

\* 120, 123 - 130: the file is read, its cache file is opened and the header written
OpenFile ==
    /\ pc = "files"
    /\ \E f \in files :
        /\ ~Excluded(f)
        /\ files' = files \ {f}
        /\ filename' = f
        /\ lines' = splitlines(tmp.files[f])
        /\ dest' = [dest EXCEPT !.files = WriteFile(@, destcachedir(f), Header(commit_id))]
    /\ pc' = "lines"
    /\ UNCHANGED <<env, tmp, acq, walked, path_read, error, notes, cmds>>

\* 131 - 145: one line that does not raise
TranscodeOne ==
    /\ pc = "lines"
    /\ lines # <<>>
    /\ LET out == TranscodeLine(Head(lines)) IN
        /\ out.kind \in {"blank", "invalid", "novers", "record"}
        /\ dest' = [dest EXCEPT !.files[destcachedir(filename)] = @ \o out.bytes]
        /\ notes' = IF out.kind = "invalid"
                    THEN notes \cup {<<"Invalid json line", filename>>} ELSE notes
    /\ lines' = Tail(lines)
    /\ UNCHANGED <<pc, env, tmp, acq, walked, path_read, files, filename, error, cmds>>

\* 141 - 142: 'vers' in jdict or jdict['vers'].encode raises; the with
\* statement closes the cache file as the exception leaves
TranscodeRaises ==
    /\ pc = "lines"
    /\ lines # <<>>
    /\ LET out == TranscodeLine(Head(lines)) IN
        /\ out.kind \in {"TypeError", "AttributeError"}
        /\ Raise(out.kind, <<>>)
    /\ UNCHANGED <<env, dest, tmp, acq, walk, notes, cmds>>

\* 131, 127: the lines are exhausted and the cache file is closed
CloseFile ==
    /\ pc = "lines"
    /\ lines = <<>>
    /\ filename' = NoFile
    /\ pc' = "files"
    /\ UNCHANGED <<env, dest, tmp, acq, walked, path_read, files, lines, error, notes, cmds>>

\* 120, 117: the files of the directory are exhausted
NextDir ==
    /\ pc = "files"
    /\ files = {}
    /\ pc' = "walk"
    /\ UNCHANGED <<env, dest, tmp, acq, walk, error, notes, cmds>>

\* a walk that ends without tmp_cachedir.cleanup()
Cleanup_kept ==
    /\ pc = "walk"
    /\ WalkDirs(tmp.files) \subseteq walked
    /\ pc' = "touch"
    /\ UNCHANGED <<env, dest, tmp, acq, walk, error, notes, cmds>>

\* 117, 146: the walk is over, tmp_cachedir.cleanup()
Cleanup ==
    /\ pc = "walk"
    /\ WalkDirs(tmp.files) \subseteq walked
    /\ tmp' = NoTmp
    /\ pc' = "touch"
    /\ UNCHANGED <<env, dest, acq, walk, error, notes, cmds>>

\* a marker that records the call that made it
Touch_stamped ==
    /\ pc = "touch"
    /\ cmds' = Append(cmds, "touch")
    /\ dest' = [dest EXCEPT !.files = WriteFile(@, LAST_UPDATED, <<ToString(runs)>>)]
    /\ pc' = "done"
    /\ UNCHANGED <<env, tmp, acq, walk, error, notes>>

\* 149 - 151: touch <destdir>/.last-updated, return True
Touch ==
    /\ pc = "touch"
    /\ cmds' = Append(cmds, "touch")
    /\ dest' = [dest EXCEPT !.files = WriteFile(@, LAST_UPDATED, <<>>)]
    /\ pc' = "done"
    /\ UNCHANGED <<env, tmp, acq, walk, error, notes>>

\* 60: after a call that raised, the scratch directory is removed only when
\* the TemporaryDirectory object is finalized, at some later time
ImplicitCleanup ==
    /\ pc = "failed"
    /\ tmp.exists
    /\ tmp' = NoTmp
    /\ UNCHANGED <<pc, env, dest, acq, walk, error, notes, cmds>>

Next ==
    \/ Unpack \/ Prune \/ NeedLfs
    \/ CloneDirUpToDate \/ CloneDirNeedsUpdate \/ GitInit \/ GitFetch \/ GitArchive
    \/ ShallowAvailable \/ ShallowExtract \/ ShallowMissing \/ ShallowDisabled
    \/ NoSource \/ CommandFails
    \/ LfsMissing \/ LfsAdvisory \/ LfsPass
    \/ WalkDir \/ SkipConfig \/ OpenFile \/ TranscodeOne \/ TranscodeRaises
    \/ CloseFile \/ NextDir \/ Cleanup \/ Touch
    \/ ImplicitCleanup

Spec == Init /\ [][Next]_vars

TranscodeSpec == InitTranscode /\ [][Next]_vars


\* ================================================================== claims
CacheFiles(d) == {p \in DOMAIN d.files : Len(p) >= 2 /\ p[1] = ".cache"}
Marked(d) == <<".last-updated">> \in DOMAIN d.files
CrateFiles(c) == {f \in DOMAIN repo[c] : Name(f) # "config.json"}

\* the bytes the loop over the lines writes for a whole text
RECURSIVE Records(_)
Records(ls) == IF ls = <<>> THEN <<>> ELSE TranscodeLine(Head(ls)).bytes \o Records(Tail(ls))
Raises(text) ==
    \E i \in 1..Len(splitlines(text)) :
        TranscodeLine(splitlines(text)[i]).kind \in {"TypeError", "AttributeError"}

\* .cache holds the finished cache file of every crate file of revision c
Populated(c) ==
    \A f \in CrateFiles(c) :
        /\ <<".cache">> \o f \in DOMAIN dest.files
        /\ ~Raises(repo[c][f])
        /\ dest.files[<<".cache">> \o f] = Header(c) \o Records(splitlines(repo[c][f]))

\* C1: whenever .last-updated is in the destination, .cache holds the
\* finished cache file of every crate file of the snapshot of the run that
\* touched it (of the current call's revision once that call has returned):
\* the marker never stands beside a partly written .cache tree.
C1_MarkerMeansPopulated ==
    Marked(dest) =>
        /\ pc \in {"prune", "done"}
        /\ \E c \in Revisions : Populated(c)
        /\ pc = "done" => Populated(commit_id)

\* a second call has rebuilt a destination that the first call had marked
C1_Witness ==
    /\ pc = "done"
    /\ runs = 2
    /\ Marked(dest)
    /\ Marked(dest0)
    /\ dest # dest0
    /\ CacheFiles(dest) # {}

\* C2 (as claimed): after a call that failed, the destination is absent or
\* is what it was before the call.
C2_FailedRunRestores ==
    pc = "failed" => dest = Absent \/ dest = dest0

\* C3 (as claimed): when no source is found, the destination is what it was
\* before the call.
C3_NoSourceLeavesDestUntouched ==
    (pc = "failed" /\ error.type = "UnpackError") => dest = dest0

\* C3 (amended): when no source is found, the destination does not exist
\* after the call: a destination that existed has been removed, none has
\* been created, so there is no .cache tree and no marker.
C3_NoSourceLeavesNoDest ==
    (pc = "failed" /\ error.type = "UnpackError") => dest = Absent

\* no source was found by a call made on a populated, marked destination
C3_Witness ==
    /\ pc = "failed"
    /\ error.type = "UnpackError"
    /\ Marked(dest0)
    /\ CacheFiles(dest0) # {}

\* C4 (as claimed): when a call has ended, by return or by exception, its
\* scratch directory is gone.
C4_ScratchReleasedOnExit ==
    pc \in {"done", "failed"} => ~tmp.exists

\* C5: when a call has returned True, .last-updated is a file directly in
\* the destination directory, beside the .cache directory.
C5_SuccessLeavesMarker ==
    pc = "done" =>
        /\ <<>> \in dest.dirs
        /\ <<".cache">> \in dest.dirs
        /\ <<".last-updated">> \in DOMAIN dest.files

\* a call that took the shallow bundle has returned
C5_Witness ==
    /\ pc = "done"
    /\ cmds = <<"tar", "touch">>
    /\ <<".git">> \notin dest.dirs
    /\ Marked(dest)


\* the cache file of f is in the destination and is not open for writing
Closed(f) == <<".cache">> \o f \in DOMAIN dest.files /\ ~(pc = "lines" /\ filename = f)
SourceLines(f) == splitlines(repo[commit_id][f])

\* C6 (as claimed): no line makes the transcoder end the call: a call fails
\* only in acquisition, in the large-file guard or in a command.
C6_NoLineAbortsRun ==
    pc = "failed" => error.type \in {"UnpackError", "FetchError"}

\* the line parses as JSON and the value carries a vers field
CarriesVers(raw) ==
    LET j == json_loads(StripSpaces(raw)) IN j.ok /\ j.val.t = "obj" /\ HasVers(j.val)

RECURSIVE VersRecords(_)
VersRecords(ls) ==
    IF ls = <<>> THEN <<>>
    ELSE IF CarriesVers(Head(ls))
    THEN encode(GetVers(json_loads(StripSpaces(Head(ls))).val).v) \o <<"0x00">>
         \o encode(StripSpaces(Head(ls))) \o <<"0x00">> \o VersRecords(Tail(ls))
    ELSE VersRecords(Tail(ls))

\* C7 (as claimed): a cache file that is not being written holds, after its
\* header, exactly the records of the lines of its source file that parse as
\* JSON and carry vers, in source order: version, NUL, stripped line, NUL.
C7_RecordsOfVersLines ==
    pc # "idle" =>
        \A f \in CrateFiles(commit_id) :
            Closed(f) =>
                dest.files[<<".cache">> \o f] = Header(commit_id) \o VersRecords(SourceLines(f))

\* what the loop over the lines writes for a text, up to the line that raises
RECURSIVE Written(_)
Written(ls) ==
    IF ls = <<>> \/ TranscodeLine(Head(ls)).kind \in {"TypeError", "AttributeError"}
    THEN <<>>
    ELSE TranscodeLine(Head(ls)).bytes \o Written(Tail(ls))

RemoveAt(ls, i) == SubSeq(ls, 1, i - 1) \o SubSeq(ls, i + 1, Len(ls))

\* C8 (as claimed): a line that is malformed, or whose value carries no vers
\* field, leaves the cache file as it would be had the line not been in the
\* source.
C8_SkippedLineLeavesNoTrace ==
    pc # "idle" =>
        \A f \in CrateFiles(commit_id) :
            Closed(f) =>
                \A i \in 1..Len(SourceLines(f)) :
                    ~CarriesVers(SourceLines(f)[i]) =>
                        dest.files[<<".cache">> \o f]
                            = Header(commit_id) \o Written(RemoveAt(SourceLines(f), i))

\* C9: every cache file in the destination begins with 0x01, the revision,
\* 0x00, for one revision that all of them share, which is the revision of
\* the call that is writing or has written them.
C9_HeaderOfRun ==
    \E c \in Revisions :
        /\ pc \notin {"idle", "prune"} => c = commit_id
        /\ \A p \in CacheFiles(dest) :
               StartsWith(dest.files[p], <<"0x01">> \o c \o <<"0x00">>)

\* a call has returned with two cache files, made on a destination whose
\* cache files carried the other revision
C9_Witness ==
    /\ pc = "done"
    /\ Cardinality(CacheFiles(dest)) >= 2
    /\ \E p \in CacheFiles(dest0) :
           ~StartsWith(dest0.files[p], <<"0x01">> \o commit_id \o <<"0x00">>)

\* C10: when a call has returned True, the files under .cache are the crate
\* files of the snapshot (its files not named config.json), each at its own
\* relative path, and nothing else.
C10_CacheMirrorsSnapshot ==
    pc = "done" =>
        CacheFiles(dest) = {<<".cache">> \o f : f \in CrateFiles(commit_id)}

\* a call has returned on a snapshot with a config.json and a crate file in
\* a subdirectory, made on a destination that held other cache files
C10_Witness ==
    /\ pc = "done"
    /\ \E f \in DOMAIN repo[commit_id] : Name(f) = "config.json"
    /\ \E f \in CrateFiles(commit_id) : Len(f) = 2
    /\ ~(CacheFiles(dest0) \subseteq CacheFiles(dest))

\* C11: in every reachable state no file named config.json exists anywhere
\* under .cache, whether the snapshot has one at its root or in a subdirectory.
C11_NoConfigInCache ==
    \A p \in CacheFiles(dest) : Name(p) # "config.json"

\* a call has returned on a snapshot with a config.json in a subdirectory,
\* next to a crate file that has its cache file
C11_Witness ==
    /\ pc = "done"
    /\ \E f \in DOMAIN repo[commit_id] :
           /\ Name(f) = "config.json"
           /\ Len(f) = 2
           /\ \E g \in CrateFiles(commit_id) :
                  Parent(g) = Parent(f) /\ <<".cache">> \o g \in CacheFiles(dest)

CacheDirs(d) == {p \in d.dirs : Len(p) >= 1 /\ p[1] = ".cache"}
CacheTree(d) == [dirs |-> CacheDirs(d), files |-> [p \in CacheFiles(d) |-> d.files[p]]]
MarkerOf(d) == IF Marked(d) THEN <<d.files[<<".last-updated">>]>> ELSE <<>>
\* two calls in a row returned True for the same revision of the same repository
Twice == pc = "done" /\ last.pc = "done" /\ last.commit_id = commit_id

\* C12: when unpack is run twice in a row on the same repository, revision
\* and destination, the second call starting from what the first left (the
\* destination, and ud.basecmd with the prefix of line 68), the second call
\* leaves the .cache tree and the marker as the first left them, byte for
\* byte, and the whole destination when it got the snapshot the same way.
C12_SecondRunIdentical ==
    Twice =>
        /\ CacheTree(dest) = CacheTree(dest0)
        /\ MarkerOf(dest) = MarkerOf(dest0)
        /\ Marked(dest)
        /\ last.cmds = cmds => dest = dest0

\* the second of two such calls has returned, both from the mirror, with the
\* prefix of line 68 put twice on ud.basecmd, and cache files in place
C12_Witness ==
    /\ Twice
    /\ last.cmds = cmds
    /\ "archive" \in {cmds[i] : i \in DOMAIN cmds}
    /\ basecmd = 2
    /\ Cardinality(CacheFiles(dest)) >= 2

\* neither source can be used: the clone directory is not up to date, and
\* shallow clones are off or the bundle is not there
NoUsableSource ==
    /\ src.mirror = "stale"
    /\ src.shallow = "off" \/ (src.shallow = "on" /\ src.bundle = "missing")

\* C13: unpack raises UnpackError exactly when the clone directory is not up
\* to date and no shallow bundle can be used, and the message then carries
\* both reasons, the one of the mirror first and the one of the shallow
\* bundle (not enabled, or not available) second, never only one of them.
C13_BothReasons ==
    /\ pc # "nosource" => (error.type = "UnpackError" <=> NoUsableSource)
    /\ pc = "nosource" => NoUsableSource /\ error = NoError
    /\ error.type = "UnpackError" =>
           /\ pc = "failed"
           /\ Len(error.msg) = 2
           /\ error.msg[1] = "clone directory not available or not up to date"
           /\ error.msg[2] = IF src.shallow = "off" THEN "shallow clone not enabled"
                              ELSE "shallow clone not available"
           /\ cmds = <<>>

\* a call has raised UnpackError with shallow clones on and the bundle missing
C13_Witness ==
    /\ error.type = "UnpackError"
    /\ src.shallow = "on"
    /\ src.bundle = "missing"

LfsError == [type |-> "FetchError", msg |-> <<"lfs">>]
LfsNote == <<"has LFS content but it is not being fetched", NoFile>>

\* C14: the guard raises FetchError exactly when the snapshot has LFS
\* content, the url asks for LFS and git-lfs is not found; with LFS content
\* and LFS not asked for it only notes that the content is not fetched, and
\* the call goes on; with no LFS content, or with git-lfs found when LFS is
\* asked for, it raises nothing and notes nothing, and the call goes on.
C14_LfsGuard ==
    /\ ~lfs.asked => error # LfsError /\ LfsNote \notin notes
    /\ lfs.asked =>
           /\ error = LfsError <=> lfs.contains /\ need_lfs /\ ~lfs.found
           /\ LfsNote \in notes <=> lfs.contains /\ ~need_lfs
           /\ error = LfsError => pc = "failed" /\ CacheFiles(dest) = {}
           /\ error # LfsError =>
                  pc \in {"walk", "files", "lines", "touch", "done", "failed"}

\* the guard has raised: LFS content, LFS asked for, git-lfs not found
C14_Witness ==
    /\ error = LfsError
    /\ lfs.contains
    /\ need_lfs
    /\ ~lfs.found

Ran(c) == c \in {cmds[i] : i \in DOMAIN cmds}
MirrorCmds == {"init", "fetch", "archive"}

\* C15: the two ways to the snapshot are tried in order and the first that
\* works is the one used: with the clone directory up to date the mirror
\* commands are run and the bundle is not looked at; the bundle is extracted
\* only when the clone directory was not up to date, shallow clones are on
\* and the bundle file is there; no call runs both, and a snapshot, once
\* found, came from exactly one of them.
C15_FirstSourceWins ==
    /\ src.mirror = "current" =>
           /\ src.shallow = "unasked" /\ src.bundle = "unasked"
           /\ ~Ran("tar")
           /\ pc # "init" => Len(cmds) >= 1 /\ cmds[1] = "init"
    /\ Ran("tar") =>
           /\ src = [mirror |-> "stale", shallow |-> "on", bundle |-> "there"]
           /\ \A c \in MirrorCmds : ~Ran(c)
    /\ (\E c \in MirrorCmds : Ran(c)) => src.mirror = "current"
    /\ source_found => (Ran("archive") /\ ~Ran("tar")) \/ (Ran("tar") /\ ~Ran("archive"))
    /\ source_found /\ src.mirror = "current" => Ran("archive")

\* a call has returned True on the snapshot of the shallow bundle
C15_Witness ==
    /\ pc = "done"
    /\ Ran("tar")
    /\ src.mirror = "stale"

\* what the current call can have made in the destination
OwnFiles ==
    {<<".cache">> \o f : f \in CrateFiles(commit_id)}
        \cup {<<".last-updated">>, <<".git", "FETCH_HEAD">>}
OwnDirs ==
    {<<>>, <<".git">>} \cup {<<".cache">> \o Parent(f) : f \in DOMAIN repo[commit_id]}
        \cup {<<".cache">>}

\* C16: every call rebuilds the destination in full: the destination that
\* was there is removed before the call writes anything, so that nothing is
\* in it until the call makes something; whatever is in it later was made by
\* this call, for this revision; and after a call that returned True it
\* holds the cache files of this snapshot, the marker, and what the mirror
\* path leaves in .git, and no file or directory of an earlier call.
C16_FullRebuild ==
    /\ pc \in {"need_lfs", "clonedir", "shallow", "untar", "nosource"} => dest = Absent
    /\ pc \notin {"idle", "prune"} =>
           /\ DOMAIN dest.files \subseteq OwnFiles
           /\ dest.dirs \subseteq OwnDirs
           /\ \A p \in CacheFiles(dest) :
                  StartsWith(dest.files[p], <<"0x01">> \o commit_id \o <<"0x00">>)
           /\ <<".git">> \in dest.dirs => Ran("init")
           /\ <<".git", "FETCH_HEAD">> \in DOMAIN dest.files =>
                  Ran("fetch") /\ dest.files[<<".git", "FETCH_HEAD">>] = commit_id
           /\ <<".last-updated">> \in DOMAIN dest.files => Ran("touch")
    /\ pc = "done" =>
           DOMAIN dest.files =
               {<<".cache">> \o f : f \in CrateFiles(commit_id)}
                   \cup {<<".last-updated">>}
                   \cup (IF Ran("fetch") THEN {<<".git", "FETCH_HEAD">>} ELSE {})

\* a call has returned True from the shallow bundle on a destination that
\* an earlier call had filled from the mirror with other cache files
C16_Witness ==
    /\ pc = "done"
    /\ Marked(dest0)
    /\ <<".git">> \in dest0.dirs
    /\ <<".git">> \notin dest.dirs
    /\ CacheFiles(dest0) \ CacheFiles(dest) # {}

GuardPassed == lfs.asked /\ error # LfsError
Transcoding == pc \in {"walk", "files", "lines"}

\* C17: the stages of a call come in order: the snapshot is acquired, then
\* the LFS guard runs, then the files are transcoded, then the marker is
\* made. Nothing is made under .cache before the snapshot was found and the
\* guard let the call pass; the guard runs on a found snapshot with nothing
\* transcoded yet; and the marker is there only after every cache file is
\* closed and the scratch directory removed, the touch being the last command.
C17_StagesInOrder ==
    /\ pc \notin {"idle", "prune"} /\ (<<".cache">> \in dest.dirs \/ CacheFiles(dest) # {}) =>
           source_found /\ GuardPassed
    /\ lfs.asked => source_found
    /\ pc = "lfs" => source_found /\ ~lfs.asked /\ <<".cache">> \notin dest.dirs
    /\ Transcoding => source_found /\ GuardPassed /\ tmp.exists /\ ~Marked(dest) /\ ~Ran("touch")
    /\ pc = "touch" => WalkDirs(repo[commit_id]) \subseteq walked /\ ~tmp.exists /\ ~Marked(dest)
                        /\ \A f \in CrateFiles(commit_id) : Closed(f)
    /\ pc \notin {"idle", "prune"} /\ Marked(dest) =>
           /\ pc = "done"
           /\ ~tmp.exists
           /\ \A f \in CrateFiles(commit_id) : Closed(f)
           /\ cmds[Len(cmds)] = "touch"
           /\ \A i \in 1..(Len(cmds) - 1) : cmds[i] # "touch"

\* a call has returned True after the guard noted LFS content and the files
\* of two directories were transcoded
C17_Witness ==
    /\ pc = "done"
    /\ Marked(dest)
    /\ LfsNote \in notes
    /\ Cardinality(walked) >= 2
    /\ ~tmp.exists

NoSpace(raw) == SelectSeq(raw, LAMBDA c : c # " ")
Unspaced(ls) == [i \in DOMAIN ls |-> NoSpace(ls[i])]
NotBlank(ls) == SelectSeq(ls, LAMBDA l : NoSpace(l) # <<>>)
CacheOf(f) == dest.files[<<".cache">> \o f]

Recordless(f) == \A i \in DOMAIN SourceLines(f) : ~CarriesVers(SourceLines(f)[i])
\* the walk has taken the file from the listing of its directory
Visited(f) == Parent(f) \in walked /\ ~(path_read = Parent(f) /\ f \in files)

\* C19: a crate file that yields no record has a cache file all the same:
\* from the moment the walk takes the file its cache file is there and is
\* not empty, once closed it is exactly the header 0x01, revision, 0x00, and
\* when the call has returned True every such file has been taken.
C19_HeaderOnlyFile ==
    pc # "idle" =>
        \A f \in CrateFiles(commit_id) :
            Recordless(f) =>
                /\ pc = "done" => Visited(f)
                /\ Visited(f) =>
                       /\ <<".cache">> \o f \in DOMAIN dest.files
                       /\ CacheOf(f) # <<>>
                       /\ Closed(f) =>
                              CacheOf(f) = <<"0x01">> \o commit_id \o <<"0x00">>

\* the call has returned on a file of a malformed line and a line without vers
C19_Witness ==
    /\ pc = "done"
    /\ SourceLines(FOO) = <<LineNotJson, LineNoVers>>
    /\ Recordless(FOO)
    /\ CacheOf(FOO) = <<"0x01">> \o commit_id \o <<"0x00">>

====
